---- MODULE Spec2Model ----
(***************************************************************************)
(* Model of the blog API under src/app: the token service                  *)
(* (core/security.py), the user, auth and blog services (services/*.py)    *)
(* and the HTTP handlers of api/v1/endpoints.  The database is the pair of *)
(* tables users and blogs; every handler is one atomic step (one request,  *)
(* one session, one commit), as in one server process.  SpecRace lets the  *)
(* service calls of several processes interleave between their read and    *)
(* their commit; inflight holds the calls that have read and not yet       *)
(* committed.                                                              *)
(*                                                                         *)
(* config.py declares SECRET_KEY as a plain str, while security.py calls   *)
(* settings.SECRET_KEY.get_secret_value() on it.  The field's type decides *)
(* whether that call raises, so it is part of the state: "str" is what     *)
(* config.py builds, "SecretStr" is the type security.py is written for.   *)
(* Behaviours with secret_key_type = "str" are those of the sources as     *)
(* they stand; the others show what the token code does once the key can   *)
(* be read.                                                                *)
(***************************************************************************)
EXTENDS Integers, Sequences, FiniteSets, TLC

VARIABLES secret_key_type, users, blogs, tokens, now, next_acct, next_post,
          last, inflight

vars == <<secret_key_type, users, blogs, tokens, now, next_acct, next_post,
          last, inflight>>

(***************************************************************************)
(* Bounds of the model.                                                    *)
(***************************************************************************)
\* accounts ever registered in one behaviour
MaxAccounts == 2
\* posts ever created in one behaviour
MaxPosts == 1
\* the clock of the main specification stops after this many minutes
MaxMinutes == 2
\* clock resolution: ticks per second (instants fall between whole seconds)
TicksPerSecond == 2
\* settings.ACCESS_TOKEN_EXPIRE_MINUTES as configured (validator: 1..1440)
ACCESS_TOKEN_EXPIRE_MINUTES == 1
\* the clock of the token specification stops after this many ticks past
\* the configured time-to-live
TokenSlack == 4
\* tokens are created in the token specification up to this tick
IssueBy == 3

\* secret keys are tried up to this many characters past the minimum length
SecretSlack == 2
\* expiry settings are tried within this distance of each limit
ExpirySlack == 2

\* timedelta(minutes=m) in seconds
SecondsPerMinute == 60

TicksPerMinute == SecondsPerMinute * TicksPerSecond

Emails == {"e1", "e2"}
Passwords == {"p1", "p2"}
\* the passwords accounts are registered with
RegPasswords == {"p1"}
Names == {"n1"}
\* titles and contents are short strings over a two-letter alphabet with case
Titles == {<<"a">>, <<"A", "b">>}
Contents == {<<"b">>}
Queries == {<<"a">>, <<"B">>}

\* Python's None where a string is expected
None == "None"
\* expires_delta = None
NoDelta == -1

Max(S) == CHOOSE x \in S : \A y \in S : y <= x

(***************************************************************************)
(* core/config.py.  The validators read the length of the secret key and   *)
(* the number of minutes; a secret key is modelled by its length.          *)
(***************************************************************************)
\* the least length validate_secret_key accepts
MinSecretKeyLength == 32
\* the most minutes validate_token_expiry accepts
MaxExpireMinutes == 1440
\* the least minutes validate_token_expiry accepts
MinExpireMinutes == 1

\* validate_token_expiry with the lower limit one too low
validate_token_expiry_accepts_zero(v) ==
    IF v < MinExpireMinutes - 1
    THEN "ACCESS_TOKEN_EXPIRE_MINUTES must be at least 1"
    ELSE IF v > MaxExpireMinutes
    THEN "ACCESS_TOKEN_EXPIRE_MINUTES cannot exceed 1440 (24 hours)"
    ELSE ""

\* Settings.validate_secret_key: the ValueError raised, "" when none is
validate_secret_key(length) ==
    IF length = 0 THEN "SECRET_KEY must be provided"
    ELSE IF length < MinSecretKeyLength
    THEN "SECRET_KEY must be at least 32 characters long"
    ELSE ""

\* Settings.validate_token_expiry: the ValueError raised, "" when none is
validate_token_expiry(v) ==
    IF v < MinExpireMinutes
    THEN "ACCESS_TOKEN_EXPIRE_MINUTES must be at least 1"
    ELSE IF v > MaxExpireMinutes
    THEN "ACCESS_TOKEN_EXPIRE_MINUTES cannot exceed 1440 (24 hours)"
    ELSE ""

\* Settings(): pydantic runs every field validator and raises one
\* ValidationError with the errors of all of them
Settings(secret_key_length, expire_minutes) ==
    LET errors == {validate_secret_key(secret_key_length),
                   validate_token_expiry(expire_minutes)} \ {""}
    IN  [SECRET_KEY |-> secret_key_length,
         ACCESS_TOKEN_EXPIRE_MINUTES |-> expire_minutes,
         errors |-> errors, loaded |-> (errors = {})]

\* before `settings = Settings()` has run
NoSettings ==
    [SECRET_KEY |-> 0, ACCESS_TOKEN_EXPIRE_MINUTES |-> 0, errors |-> {},
     loaded |-> FALSE]

(***************************************************************************)
(* core/security.py                                                        *)
(***************************************************************************)
\* bcrypt reads the first 72 bytes of a password and nothing after them.
\* LongPasswords are the passwords of more than 72 bytes, each with its
\* first 72 bytes; every other password is read whole
LongPasswords == [L1a |-> "L1", L1b |-> "L1", L2a |-> "L2"]

bcrypt_bytes(password) ==
    IF password \in DOMAIN LongPasswords THEN LongPasswords[password]
    ELSE password

\* pwd_context.hash: a bcrypt hash embeds what verify needs to recognise the
\* bytes bcrypt read; nothing else can be read from it
hash_password(password) == [scheme |-> "bcrypt", of |-> bcrypt_bytes(password)]

MalformedHash == [scheme |-> "plain", of |-> "p1"]

\* pwd_context.verify, with every exception turned into False
verify_password(plain_password, hashed_password) ==
    IF hashed_password.scheme # "bcrypt"
    THEN FALSE
    ELSE hashed_password.of = bcrypt_bytes(plain_password)

\* settings.SECRET_KEY.get_secret_value(): AttributeError on a str
get_secret_value(key_type) ==
    IF key_type = "SecretStr" THEN "key" ELSE "AttributeError"

\* datetime -> whole seconds since the epoch (timegm(utctimetuple()))
ToSeconds(t) == t \div TicksPerSecond

\* jose.jwt.encode: the exp datetime becomes whole seconds, the claims are
\* signed with the key.  acct, iat and ttl are not in the token: they note
\* the account it was issued to, the instant it was created at and the
\* expires_delta asked for, for the properties to refer to
jwt_encode(claims, key) ==
    [kind |-> "jwt", sub |-> claims.sub, user_id |-> claims.user_id,
     exp |-> ToSeconds(claims.exp), sig |-> key,
     acct |-> claims.acct, iat |-> claims.iat, ttl |-> claims.ttl]

\* jwt.decode with options verify_exp off
jwt_decode_no_expiry(token, key, t) ==
    IF token.kind # "jwt" THEN "JWTError"
    ELSE IF token.sig # key THEN "JWTError"
    ELSE "ok"

\* jose.jwt.decode: JWTError for a malformed string or a signature made with
\* another key, ExpiredSignatureError when exp < now (whole seconds)
jwt_decode(token, key, t) ==
    IF token.kind # "jwt" THEN "JWTError"
    ELSE IF token.sig # key THEN "JWTError"
    ELSE IF token.exp < ToSeconds(t) THEN "ExpiredSignatureError"
    ELSE "ok"

\* timedelta(minutes=m) in ticks
timedelta(m) == m * TicksPerMinute

\* what create_access_token yields when it raises ValueError
TokenValueError ==
    [kind |-> "ValueError", sub |-> None, user_id |-> 0, exp |-> 0,
     sig |-> "", acct |-> 0, iat |-> 0, ttl |-> NoDelta]

\* SecurityManager.create_access_token(data, expires_delta) at instant t:
\* the token, or ValueError.  expires_delta is NoDelta or a number of ticks;
\* `if expires_delta:` is false for None and for timedelta(0)
create_access_token(data, expires_delta, t, key_type) ==
    LET expire == IF expires_delta # NoDelta /\ expires_delta # 0
                  THEN t + expires_delta
                  ELSE t + timedelta(ACCESS_TOKEN_EXPIRE_MINUTES)
        key == get_secret_value(key_type)
    IN  IF key = "AttributeError"
        THEN TokenValueError
        ELSE jwt_encode([sub |-> data.sub, user_id |-> data.user_id,
                         exp |-> expire, acct |-> data.acct, iat |-> t,
                         ttl |-> expires_delta], key)

\* SecurityManager.verify_token(token) at instant t: the subject or None;
\* every exception is caught
verify_token(token, t, key_type) ==
    LET key == get_secret_value(key_type)
    IN  IF key = "AttributeError" THEN None
        ELSE IF jwt_decode(token, key, t) # "ok" THEN None
        ELSE token.sub

(***************************************************************************)
(* The tables.  id is the INTEGER PRIMARY KEY the storage assigns: the      *)
(* largest id in the table plus one.  acct and serial number the accounts  *)
(* and posts in order of creation; the code never reads them, they let a   *)
(* property tell an account from a later one that was given the same id or *)
(* email.                                                                  *)
(***************************************************************************)
NewId(rows) == IF rows = {} THEN 1 ELSE Max({r.id : r \in rows}) + 1

\* .first() of a query without rows
NoUser ==
    [id |-> 0, acct |-> 0, name |-> "", email |-> "",
     password_hash |-> [scheme |-> "", of |-> ""],
     is_active |-> FALSE, is_verified |-> FALSE]

NoBlog ==
    [id |-> 0, serial |-> 0, title |-> <<>>, content |-> <<>>,
     summary |-> None, is_published |-> FALSE, creator_id |-> 0]

\* db.query(User).filter(User.id == user_id).first()
user_by_id(us, user_id) ==
    IF \E u \in us : u.id = user_id
    THEN CHOOSE u \in us : u.id = user_id
    ELSE NoUser

\* db.query(Blog).filter(Blog.id == blog_id).first()
blog_by_id(bs, blog_id) ==
    IF \E b \in bs : b.id = blog_id
    THEN CHOOSE b \in bs : b.id = blog_id
    ELSE NoBlog

\* the outcome of a service call: the exception that leaves it (or None),
\* its detail, the value returned and the tables after it
Outcome(exc, detail, ret, us, bs) ==
    [exc |-> exc, detail |-> detail, ret |-> ret, users |-> us, blogs |-> bs]

(***************************************************************************)
(* services/user_service.py                                                *)
(***************************************************************************)
\* UserService.get_user_by_email
get_user_by_email(us, email) ==
    IF \E u \in us : u.email = email
    THEN CHOOSE u \in us : u.email = email
    ELSE NoUser

\* UserService.create_user: the ConflictError raised inside the try block is
\* not an IntegrityError, so the `except Exception` clause turns it into
\* DatabaseError
create_user(us, bs, user_data, acct) ==
    IF get_user_by_email(us, user_data.email) # NoUser
    THEN Outcome("DatabaseError", "Failed to create user", NoUser, us, bs)
    ELSE LET db_user == [id |-> NewId(us), acct |-> acct,
                         name |-> user_data.name, email |-> user_data.email,
                         password_hash |-> hash_password(user_data.password),
                         is_active |-> TRUE, is_verified |-> TRUE]
         IN  Outcome(None, "", db_user, us \cup {db_user}, bs)

\* setattr for every field of the request that is set (exclude_unset)
apply_user_update(user, user_data) ==
    [user EXCEPT
        !.email = IF "email" \in user_data.set THEN user_data.email ELSE @,
        !.is_active = IF "is_active" \in user_data.set
                      THEN user_data.is_active ELSE @]

\* UserService.update_user: NotFoundError is caught by `except Exception` and
\* leaves as DatabaseError; a second row with the same email violates the
\* unique index at commit (IntegrityError -> rollback -> ConflictError).
\* is_active sent as null is stored as NULL by the commit (the column is
\* nullable); UserResponse.model_validate then fails on it, after the
\* commit, and the error leaves as DatabaseError with the row changed.
\* NULL is stored here as FALSE: every test of is_active in the code is a
\* truth test, which NULL fails as False does
update_user(us, bs, user_id, user_data) ==
    LET user == user_by_id(us, user_id)
    IN  IF user = NoUser
        THEN Outcome("DatabaseError", "Failed to update user", NoUser, us, bs)
        ELSE LET updated == apply_user_update(user, user_data)
             IN  IF \E o \in us \ {user} : o.email = updated.email
                 THEN Outcome("ConflictError",
                              "User update failed due to database constraints",
                              NoUser, us, bs)
                 ELSE IF "is_active" \in user_data.null
                 THEN Outcome("DatabaseError", "Failed to update user",
                              NoUser, (us \ {user}) \cup {updated}, bs)
                 ELSE Outcome(None, "", updated,
                              (us \ {user}) \cup {updated}, bs)

\* UserService.delete_user: the user and, by the cascade of User.blogs, the
\* posts of the user; NotFoundError leaves as DatabaseError
delete_user(us, bs, user_id) ==
    LET user == user_by_id(us, user_id)
    IN  IF user = NoUser
        THEN Outcome("DatabaseError", "Failed to delete user", NoUser, us, bs)
        ELSE Outcome(None, "", user, us \ {user},
                     {b \in bs : b.creator_id # user_id})

\* authenticate_user without the is_active check
authenticate_user_any_status(us, email, password) ==
    LET user == get_user_by_email(us, email)
    IN  IF user = NoUser THEN NoUser
        ELSE IF ~verify_password(password, user.password_hash) THEN NoUser
        ELSE user

\* UserService.authenticate_user
authenticate_user(us, email, password) ==
    LET user == get_user_by_email(us, email)
    IN  IF user = NoUser THEN NoUser
        ELSE IF ~verify_password(password, user.password_hash) THEN NoUser
        ELSE IF ~user.is_active THEN NoUser
        ELSE user

\* the case of authenticate_user a login falls in
login_case(us, email, password) ==
    LET user == get_user_by_email(us, email)
    IN  IF user = NoUser THEN "unknown_email"
        ELSE IF ~verify_password(password, user.password_hash)
             THEN "wrong_password"
        ELSE IF ~user.is_active THEN "inactive"
        ELSE "valid"

\* the whole row in place of the public schema
UserRow(user) == user

\* schemas/user.py UserResponse (from_attributes): the fields of the row the
\* schema declares; created_at is not modelled
UserResponse(user) ==
    [id |-> user.id, name |-> user.name, email |-> user.email,
     is_active |-> user.is_active]

\* UserService.get_all_users (offset/limit over the rows in id order): each
\* row through UserResponse.model_validate
get_all_users(us) == {UserResponse(user) : user \in us}

(***************************************************************************)
(* services/auth_service.py                                                *)
(***************************************************************************)
\* AuthService.create_access_token: the token, or AuthenticationError
auth_create_access_token(user, t, key_type) ==
    LET access_token ==
            create_access_token(
                [sub |-> user.email, user_id |-> user.id, acct |-> user.acct],
                timedelta(ACCESS_TOKEN_EXPIRE_MINUTES), t, key_type)
    IN  IF access_token = TokenValueError
        THEN [exc |-> "AuthenticationError",
              detail |-> "Failed to create access token",
              token |-> TokenValueError]
        ELSE [exc |-> None, detail |-> "", token |-> access_token]

\* the summary of the user in a login response
user_response(user) ==
    [id |-> user.id, name |-> user.name, email |-> user.email,
     is_active |-> user.is_active]

NoSummary == [id |-> 0, name |-> "", email |-> "", is_active |-> FALSE]

\* the dict GET /auth/me answers with
user_info(user) ==
    [id |-> user.id, name |-> user.name, email |-> user.email,
     is_active |-> user.is_active, is_verified |-> user.is_verified]

\* AuthService.login_user
login_user(us, email, password, t, key_type) ==
    LET user == authenticate_user(us, email, password)
    IN  IF user = NoUser
        THEN [exc |-> "AuthenticationError",
              detail |-> "Invalid email or password",
              token |-> TokenValueError, user |-> NoSummary]
        ELSE LET tk == auth_create_access_token(user, t, key_type)
             IN  IF tk.exc # None
                 THEN [exc |-> tk.exc, detail |-> tk.detail,
                       token |-> TokenValueError, user |-> NoSummary]
                 ELSE [exc |-> None, detail |-> "", token |-> tk.token,
                       user |-> user_response(user)]

\* get_current_user without the is_active check
get_current_user_any_status(us, token, t, key_type) ==
    LET email == verify_token(token, t, key_type)
    IN  IF email = None
        THEN [exc |-> "AuthenticationError",
              detail |-> "Invalid or expired token", user |-> NoUser]
        ELSE LET user == get_user_by_email(us, email)
             IN  IF user = NoUser
                 THEN [exc |-> "AuthenticationError",
                       detail |-> "User not found", user |-> NoUser]
                 ELSE [exc |-> None, detail |-> "", user |-> user]

\* AuthService.get_current_user: the three checks in order
get_current_user(us, token, t, key_type) ==
    LET email == verify_token(token, t, key_type)
    IN  IF email = None
        THEN [exc |-> "AuthenticationError",
              detail |-> "Invalid or expired token", user |-> NoUser]
        ELSE LET user == get_user_by_email(us, email)
             IN  IF user = NoUser
                 THEN [exc |-> "AuthenticationError",
                       detail |-> "User not found", user |-> NoUser]
                 ELSE IF ~user.is_active
                 THEN [exc |-> "AuthenticationError",
                       detail |-> "User account is deactivated",
                       user |-> NoUser]
                 ELSE [exc |-> None, detail |-> "", user |-> user]

\* an administrator check that reads is_verified
is_admin_if_verified(user) == user.is_verified

\* hasattr(user, 'is_admin') and user.is_admin: the User model declares no
\* is_admin column
is_admin(user) == "is_admin" \in DOMAIN user /\ user.is_admin

\* AuthService.verify_user_permissions
verify_user_permissions(user, resource_owner_id) ==
    IF is_admin(user) THEN TRUE
    ELSE user.id = resource_owner_id

(***************************************************************************)
(* services/blog_service.py                                                *)
(***************************************************************************)
\* BlogService.create_blog: NotFoundError for a missing creator is caught by
\* `except Exception` and leaves as DatabaseError
create_blog(us, bs, blog_data, creator_id, serial) ==
    IF user_by_id(us, creator_id) = NoUser
    THEN Outcome("DatabaseError", "Failed to create blog", NoBlog, us, bs)
    ELSE LET db_blog == [id |-> NewId(bs), serial |-> serial,
                         title |-> blog_data.title,
                         content |-> blog_data.content,
                         summary |-> blog_data.summary,
                         is_published |-> blog_data.is_published,
                         creator_id |-> creator_id]
         IN  Outcome(None, "", db_blog, us, bs \cup {db_blog})

\* the rows of a query in id order
RECURSIVE Rows(_)
Rows(bs) ==
    IF bs = {} THEN <<>>
    ELSE LET b == CHOOSE x \in bs : \A y \in bs : x.id <= y.id
         IN  <<b>> \o Rows(bs \ {b})

\* query.offset(skip).limit(limit).all()
Page(rows, skip, limit) ==
    SubSeq(rows, skip + 1,
           IF skip + limit < Len(rows) THEN skip + limit ELSE Len(rows))

\* BlogListResponse
BlogListResponse(rows, total, skip, limit) ==
    [blogs |-> rows, total |-> total, page |-> (skip \div limit) + 1,
     size |-> limit, has_next |-> (skip + limit) < total,
     has_prev |-> skip > 0]

NoList == BlogListResponse(<<>>, 0, 0, 1)

\* BlogService.get_all_blogs
get_all_blogs(bs, skip, limit, published_only) ==
    LET query == IF published_only THEN {b \in bs : b.is_published} ELSE bs
    IN  BlogListResponse(Page(Rows(query), skip, limit), Cardinality(query),
                         skip, limit)

\* BlogService.get_blogs_by_user: NotFoundError leaves as DatabaseError
get_blogs_by_user(us, bs, user_id, skip, limit) ==
    IF user_by_id(us, user_id) = NoUser
    THEN Outcome("DatabaseError", "Failed to fetch user blogs", NoList, us, bs)
    ELSE LET query == {b \in bs : b.creator_id = user_id}
         IN  Outcome(None, "",
                     BlogListResponse(Page(Rows(query), skip, limit),
                                      Cardinality(query), skip, limit),
                     us, bs)

\* an update that replaces the post: the fields the request does not set
\* go back to their defaults
apply_blog_update_replace(blog, blog_data) ==
    [blog EXCEPT
        !.title = IF "title" \in blog_data.set THEN blog_data.title ELSE @,
        !.content = IF "content" \in blog_data.set
                    THEN blog_data.content ELSE @,
        !.summary = IF "summary" \in blog_data.set
                    THEN blog_data.summary ELSE None,
        !.is_published = IF "is_published" \in blog_data.set
                         THEN blog_data.is_published ELSE FALSE]

\* setattr for every field of the request that is set (exclude_unset)
apply_blog_update(blog, blog_data) ==
    [blog EXCEPT
        !.title = IF "title" \in blog_data.set THEN blog_data.title ELSE @,
        !.content = IF "content" \in blog_data.set
                    THEN blog_data.content ELSE @,
        !.summary = IF "summary" \in blog_data.set
                    THEN blog_data.summary ELSE @,
        !.is_published = IF "is_published" \in blog_data.set
                         THEN blog_data.is_published ELSE @]

\* update_blog that writes and commits before it checks the owner
update_blog_write_first(us, bs, blog_id, blog_data, user_id) ==
    LET blog == blog_by_id(bs, blog_id)
    IN  IF blog = NoBlog
        THEN Outcome("NotFoundError", "Blog not found", NoBlog, us, bs)
        ELSE LET updated == apply_blog_update(blog, blog_data)
             IN  IF blog.creator_id # user_id
                 THEN Outcome("AuthorizationError",
                              "You can only update your own blog posts",
                              NoBlog, us, (bs \ {blog}) \cup {updated})
                 ELSE Outcome(None, "", updated, us,
                              (bs \ {blog}) \cup {updated})

\* update_blog by any caller, who becomes the owner of the post
update_blog_takes_over(us, bs, blog_id, blog_data, user_id) ==
    LET blog == blog_by_id(bs, blog_id)
    IN  IF blog = NoBlog
        THEN Outcome("NotFoundError", "Blog not found", NoBlog, us, bs)
        ELSE LET updated == [apply_blog_update(blog, blog_data)
                                EXCEPT !.creator_id = user_id]
             IN  Outcome(None, "", updated, us, (bs \ {blog}) \cup {updated})

\* BlogService.update_blog.  A title or content sent as null violates NOT
\* NULL at the commit (IntegrityError, rolled back, ConflictError);
\* is_published sent as null is committed (stored as FALSE here), and
\* BlogResponse.model_validate then fails, after the commit
update_blog(us, bs, blog_id, blog_data, user_id) ==
    LET blog == blog_by_id(bs, blog_id)
    IN  IF blog = NoBlog
        THEN Outcome("NotFoundError", "Blog not found", NoBlog, us, bs)
        ELSE IF blog.creator_id # user_id
        THEN Outcome("AuthorizationError",
                     "You can only update your own blog posts", NoBlog, us, bs)
        ELSE LET updated == apply_blog_update(blog, blog_data)
             IN  IF blog_data.null \cap {"title", "content"} # {}
                 THEN Outcome("ConflictError",
                              "Blog update failed due to database constraints",
                              NoBlog, us, bs)
                 ELSE IF "is_published" \in blog_data.null
                 THEN Outcome("PydanticValidationError", "", NoBlog, us,
                              (bs \ {blog}) \cup {updated})
                 ELSE Outcome(None, "", updated, us,
                              (bs \ {blog}) \cup {updated})

\* delete_blog without the ownership check
delete_blog_any_caller(us, bs, blog_id, user_id) ==
    LET blog == blog_by_id(bs, blog_id)
    IN  IF blog = NoBlog
        THEN Outcome("NotFoundError", "Blog not found", NoBlog, us, bs)
        ELSE Outcome(None, "", blog, us, bs \ {blog})

\* BlogService.delete_blog
delete_blog(us, bs, blog_id, user_id) ==
    LET blog == blog_by_id(bs, blog_id)
    IN  IF blog = NoBlog
        THEN Outcome("NotFoundError", "Blog not found", NoBlog, us, bs)
        ELSE IF blog.creator_id # user_id
        THEN Outcome("AuthorizationError",
                     "You can only delete your own blog posts", NoBlog, us, bs)
        ELSE Outcome(None, "", blog, us, bs \ {blog})

\* publish_blog that refuses a post that is published already
publish_blog_once(us, bs, blog_id, user_id) ==
    LET blog == blog_by_id(bs, blog_id)
    IN  IF blog = NoBlog
        THEN Outcome("NotFoundError", "Blog not found", NoBlog, us, bs)
        ELSE IF blog.creator_id # user_id
        THEN Outcome("AuthorizationError",
                     "You can only publish your own blog posts", NoBlog, us, bs)
        ELSE IF blog.is_published
        THEN Outcome("ConflictError", "Blog is already published", NoBlog,
                     us, bs)
        ELSE LET published == [blog EXCEPT !.is_published = TRUE]
             IN  Outcome(None, "", published, us,
                         (bs \ {blog}) \cup {published})

\* BlogService.publish_blog
publish_blog(us, bs, blog_id, user_id) ==
    LET blog == blog_by_id(bs, blog_id)
    IN  IF blog = NoBlog
        THEN Outcome("NotFoundError", "Blog not found", NoBlog, us, bs)
        ELSE IF blog.creator_id # user_id
        THEN Outcome("AuthorizationError",
                     "You can only publish your own blog posts", NoBlog, us, bs)
        ELSE LET published == [blog EXCEPT !.is_published = TRUE]
             IN  Outcome(None, "", published, us,
                         (bs \ {blog}) \cup {published})

\* lower case of a letter, as ILIKE compares
Lower(c) == IF c = "A" THEN "a" ELSE IF c = "B" THEN "b" ELSE c

\* text ILIKE '%query%'
ilike(text, query) ==
    \E i \in 0..(Len(text) - Len(query)) :
        \A j \in 1..Len(query) : Lower(text[i + j]) = Lower(query[j])

\* BlogService.search_blogs
search_blogs(bs, query, skip, limit) ==
    LET found == {b \in bs : b.is_published
                             /\ (ilike(b.title, query)
                                 \/ ilike(b.content, query))}
    IN  BlogListResponse(Page(Rows(found), skip, limit), Cardinality(found),
                         skip, limit)

(***************************************************************************)
(* Requests.  last records the request handled by the latest step and its  *)
(* response: the handler (op), the credential presented (cred), the status *)
(* and detail of the response, the exception that reached the handler      *)
(* (exc) with its detail (err), the user the session resolved to (caller,  *)
(* caller_acct), the row, as it was when the request arrived, of the       *)
(* account the presented token was issued to (holder), the post addressed  *)
(* and its owner before the request (target, owner), the owners of the     *)
(* posts the request changed or removed (touched), and the body.           *)
(***************************************************************************)
\* no Authorization header (public endpoints)
NoCred ==
    [kind |-> "none", sub |-> None, user_id |-> 0, exp |-> 0, sig |-> "",
     acct |-> 0, iat |-> 0, ttl |-> NoDelta]

\* a well-formed token signed with a key that is not the server's
Forged ==
    [kind |-> "jwt", sub |-> "e1", user_id |-> 1,
     exp |-> ToSeconds(timedelta(MaxMinutes + 2)), sig |-> "other",
     acct |-> 0, iat |-> 0, ttl |-> NoDelta]

\* a string that is no JWT
Malformed ==
    [kind |-> "garbage", sub |-> None, user_id |-> 0, exp |-> 0, sig |-> "",
     acct |-> 0, iat |-> 0, ttl |-> NoDelta]

\* what a client can put in the Authorization header: a token it was
\* issued, or a string of its own making
Credentials == tokens \cup {Forged, Malformed}

\* the requests PUT /users/me is sent (fields that are not set carry a
\* placeholder).  null holds the fields sent as JSON null, which UserUpdate
\* accepts for an Optional field and counts as set
UserUpdates ==
    {[set |-> {}, email |-> "", is_active |-> FALSE, null |-> {}]}
    \cup {[set |-> {"email"}, email |-> e, is_active |-> FALSE,
           null |-> {}] : e \in Emails}
    \cup {[set |-> {"is_active"}, email |-> "", is_active |-> a,
           null |-> {}] : a \in BOOLEAN}
    \cup {[set |-> {"email", "is_active"}, email |-> e, is_active |-> a,
           null |-> {}] : e \in Emails, a \in BOOLEAN}
    \cup {[set |-> {"is_active"}, email |-> "", is_active |-> FALSE,
           null |-> {"is_active"}]}

\* the requests PUT /blogs/{blog_id} is sent
BlogUpdates ==
    {[set |-> {}, title |-> <<>>, content |-> <<>>, summary |-> None,
      is_published |-> FALSE, null |-> {}]}
    \cup {[set |-> {"title"}, title |-> t, content |-> <<>>,
           summary |-> None, is_published |-> FALSE, null |-> {}] : t \in Titles}
    \cup {[set |-> {"is_published"}, title |-> <<>>, content |-> <<>>,
           summary |-> None, is_published |-> p, null |-> {}] : p \in BOOLEAN}
    \cup {[set |-> {"title", "is_published"}, title |-> t, content |-> <<>>,
           summary |-> None, is_published |-> p, null |-> {}] :
             t \in Titles, p \in BOOLEAN}

\* no body
NoBlogUpdate ==
    [set |-> {}, title |-> <<>>, content |-> <<>>, summary |-> None,
     is_published |-> FALSE, null |-> {}]

NoRequest ==
    [op |-> "", cred |-> NoCred, status |-> 0, detail |-> "", exc |-> None,
     err |-> "", caller |-> 0, caller_acct |-> 0, holder |-> NoUser,
     target |-> 0, owner |-> 0,
     touched |-> {}, email |-> "", case |-> "", token |-> NoCred,
     listing |-> NoList, profile |-> NoSummary, users_listed |-> {},
     password |-> "", settings |-> NoSettings,
     blog_data |-> NoBlogUpdate, changed |-> FALSE]

\* the stored account the token was issued to
Holder(cred) ==
    IF \E u \in users : u.acct = cred.acct
    THEN CHOOSE u \in users : u.acct = cred.acct
    ELSE NoUser

\* the posts of bs that are changed or absent in bs2, by their owners
Touched(bs, bs2) == {b.creator_id : b \in bs \ bs2}

\* the response to a request rejected by the session dependency
\* (get_current_user_dependency / get_current_active_user_dependency):
\* AuthenticationError is an HTTPException with status 401
Rejected(op, cred, session) ==
    [NoRequest EXCEPT !.op = op, !.cred = cred, !.status = 401,
                      !.detail = session.detail, !.exc = session.exc,
                      !.err = session.detail, !.holder = Holder(cred)]

\* the request of a resolved session, before the handler's outcome is known
Resolved(op, cred, session) ==
    [NoRequest EXCEPT !.op = op, !.cred = cred,
                      !.caller = session.user.id,
                      !.caller_acct = session.user.acct,
                      !.holder = Holder(cred)]

\* Depends(get_current_user_dependency) at this instant
Session(cred) == get_current_user(users, cred, now, secret_key_type)

Unchanged == UNCHANGED <<inflight, secret_key_type, users, blogs, tokens, now,
                         next_acct, next_post>>

(***************************************************************************)
(* api/v1/endpoints/users.py                                               *)
(***************************************************************************)
\* POST /users/create
CreateUser ==
    \E email \in Emails, password \in RegPasswords, name \in Names :
        LET out == create_user(users, blogs,
                               [name |-> name, email |-> email,
                                password |-> password], next_acct)
        IN  /\ out.exc = None => next_acct <= MaxAccounts
            /\ users' = out.users
            /\ next_acct' = IF out.exc = None THEN next_acct + 1 ELSE next_acct
            /\ last' = [NoRequest EXCEPT
                            !.op = "create_user", !.email = email,
                            !.exc = out.exc, !.err = out.detail,
                            !.status = IF out.exc = None THEN 201
                                       ELSE IF out.exc = "ConflictError" THEN 409
                                       ELSE 500,
                            !.detail = IF out.exc = None THEN ""
                                       ELSE IF out.exc = "ConflictError"
                                       THEN out.detail
                                       ELSE "Failed to create user",
                            !.profile = UserResponse(out.ret),
                            !.changed = (out.users # users)]
            /\ UNCHANGED <<inflight, secret_key_type, blogs, tokens, now, next_post>>

\* GET /users/me
GetMe ==
    \E cred \in tokens :
        LET session == Session(cred)
        IN  /\ last' = IF session.exc # None
                       THEN Rejected("get_me", cred, session)
                       ELSE [Resolved("get_me", cred, session) EXCEPT
                                !.status = 200,
                                !.profile = UserResponse(session.user)]
            /\ Unchanged

\* GET /users/me/blogs
GetMeBlogs ==
    \E cred \in tokens :
        LET session == Session(cred)
        IN  /\ last' = IF session.exc # None
                       THEN Rejected("get_me_blogs", cred, session)
                       ELSE [Resolved("get_me_blogs", cred, session) EXCEPT
                                !.status = 200,
                                !.profile = UserResponse(session.user),
                                !.listing =
                                    LET mine == {b \in blogs :
                                            b.creator_id = session.user.id}
                                    IN  BlogListResponse(Rows(mine),
                                            Cardinality(mine), 0, 1)]
            /\ Unchanged

\* GET /users/{user_id}: the HTTPException(403) raised inside the try block
\* is caught by the handler's own `except Exception` and answered with 500
GetUser ==
    \E cred \in tokens, user_id \in 1..MaxAccounts :
        LET session == Session(cred)
        IN  /\ last' = IF session.exc # None
                       THEN Rejected("get_user", cred, session)
                       ELSE IF session.user.id # user_id
                       THEN [Resolved("get_user", cred, session) EXCEPT
                                !.status = 500, !.exc = "HTTPException",
                                !.target = user_id,
                                !.detail = "Failed to fetch user"]
                       ELSE [Resolved("get_user", cred, session) EXCEPT
                                !.status = 200, !.target = user_id,
                                !.profile = UserResponse(
                                                user_by_id(users, user_id))]
            /\ Unchanged

\* PUT /users/me
UpdateMe ==
    \E cred \in tokens, user_data \in UserUpdates :
        LET session == Session(cred)
            out == update_user(users, blogs, session.user.id, user_data)
        IN  IF session.exc # None
            THEN /\ last' = Rejected("update_me", cred, session)
                 /\ Unchanged
            ELSE /\ users' = out.users
                 /\ last' = [Resolved("update_me", cred, session) EXCEPT
                                !.exc = out.exc, !.err = out.detail,
                                !.status = IF out.exc = None THEN 200
                                           ELSE IF out.exc = "ConflictError"
                                           THEN 409 ELSE 500,
                                !.detail = IF out.exc = None THEN ""
                                           ELSE IF out.exc = "ConflictError"
                                           THEN out.detail
                                           ELSE "Failed to update user",
                                !.profile = UserResponse(out.ret),
                                !.changed = (out.users # users)]
                 /\ UNCHANGED <<inflight, secret_key_type, blogs, tokens, now,
                                next_acct, next_post>>

\* DELETE /users/me
DeleteMe ==
    \E cred \in tokens :
        LET session == Session(cred)
            out == delete_user(users, blogs, session.user.id)
        IN  IF session.exc # None
            THEN /\ last' = Rejected("delete_me", cred, session)
                 /\ Unchanged
            ELSE /\ users' = out.users
                 /\ blogs' = out.blogs
                 /\ last' = [Resolved("delete_me", cred, session) EXCEPT
                                !.exc = out.exc, !.err = out.detail,
                                !.status = IF out.exc = None THEN 204 ELSE 500,
                                !.detail = IF out.exc = None THEN ""
                                           ELSE "Failed to delete user",
                                !.touched = Touched(blogs, out.blogs),
                                !.changed = (out.users # users
                                             \/ out.blogs # blogs)]
                 /\ UNCHANGED <<inflight, secret_key_type, tokens, now, next_acct,
                                next_post>>

\* GET /users/
GetUsers ==
    \E cred \in tokens :
        LET session == Session(cred)
        IN  /\ last' = IF session.exc # None
                       THEN Rejected("get_users", cred, session)
                       ELSE [Resolved("get_users", cred, session) EXCEPT
                                !.status = 200,
                                !.users_listed = get_all_users(users)]
            /\ Unchanged

(***************************************************************************)
(* api/v1/endpoints/auth.py                                                *)
(***************************************************************************)
\* POST /auth/login: every AuthenticationError of login_user is answered
\* with 401 "Invalid email or password".  The client keeps the token it is
\* given in place of the one it held.
Login ==
    \E email \in Emails, password \in Passwords :
        LET r == login_user(users, email, password, now, secret_key_type)
        IN  /\ tokens' = IF r.exc = None THEN {r.token} ELSE tokens
            /\ last' = [NoRequest EXCEPT
                            !.op = "login", !.email = email,
                            !.case = login_case(users, email, password),
                            !.exc = r.exc, !.err = r.detail,
                            !.status = IF r.exc = None THEN 200 ELSE 401,
                            !.detail = IF r.exc = None THEN ""
                                       ELSE "Invalid email or password",
                            !.token = IF r.exc = None THEN r.token ELSE NoCred,
                            !.profile = r.user]
            /\ UNCHANGED <<inflight, secret_key_type, users, blogs, now, next_acct,
                           next_post>>

\* a logout that ends the caller's sessions on the server, by deactivating
\* the account
LogoutRevokes ==
    \E cred \in tokens :
        LET session == Session(cred)
        IN  /\ last' = IF session.exc # None
                       THEN Rejected("logout", cred, session)
                       ELSE [Resolved("logout", cred, session) EXCEPT
                                !.status = 200,
                                !.detail = "Logged out successfully"]
            /\ users' = IF session.exc # None THEN users
                        ELSE (users \ {session.user})
                             \cup {[session.user EXCEPT !.is_active = FALSE]}
            /\ UNCHANGED <<inflight, secret_key_type, blogs, tokens, now,
                           next_acct, next_post>>

\* POST /auth/logout
Logout ==
    \E cred \in tokens :
        LET session == Session(cred)
        IN  /\ last' = IF session.exc # None
                       THEN Rejected("logout", cred, session)
                       ELSE [Resolved("logout", cred, session) EXCEPT
                                !.status = 200,
                                !.detail = "Logged out successfully"]
            /\ Unchanged

\* GET /auth/me
GetCurrentUserInfo ==
    \E cred \in Credentials :
        LET session == Session(cred)
        IN  /\ last' = IF session.exc # None
                       THEN Rejected("get_current_user_info", cred, session)
                       ELSE [Resolved("get_current_user_info", cred, session)
                             EXCEPT !.status = 200,
                                    !.profile = user_info(session.user)]
            /\ Unchanged

(***************************************************************************)
(* api/v1/endpoints/blogs.py                                               *)
(***************************************************************************)
\* the status a blog handler answers an exception of the service with
BlogStatus(exc, ok) ==
    IF exc = None THEN ok
    ELSE IF exc = "NotFoundError" THEN 404
    ELSE IF exc = "AuthorizationError" THEN 403
    ELSE IF exc = "ValidationError" THEN 422
    ELSE 500

\* POST /blogs/
CreateBlog ==
    \E cred \in tokens, title \in Titles, content \in Contents,
       is_published \in BOOLEAN :
        LET session == Session(cred)
            out == create_blog(users, blogs,
                               [title |-> title, content |-> content,
                                summary |-> None,
                                is_published |-> is_published],
                               session.user.id, next_post)
        IN  IF session.exc # None
            THEN /\ last' = Rejected("create_blog", cred, session)
                 /\ Unchanged
            ELSE /\ out.exc = None => next_post <= MaxPosts
                 /\ blogs' = out.blogs
                 /\ next_post' = IF out.exc = None THEN next_post + 1
                                 ELSE next_post
                 /\ last' = [Resolved("create_blog", cred, session) EXCEPT
                                !.exc = out.exc, !.err = out.detail,
                                !.status = IF out.exc = None THEN 201 ELSE 500,
                                !.detail = IF out.exc = None THEN ""
                                           ELSE "Failed to create blog",
                                !.target = out.ret.id,
                                !.owner = out.ret.creator_id,
                                !.changed = (out.blogs # blogs)]
                 /\ UNCHANGED <<inflight, secret_key_type, users, tokens, now,
                                next_acct>>

\* GET /blogs/
GetBlogs ==
    \E skip \in 0..1, limit \in 1..2, published_only \in BOOLEAN :
        /\ last' = [NoRequest EXCEPT
                        !.op = "get_blogs", !.status = 200,
                        !.listing = get_all_blogs(blogs, skip, limit,
                                                  published_only)]
        /\ Unchanged

\* GET /blogs/search
SearchBlogs ==
    \E q \in Queries, skip \in 0..1, limit \in 1..2 :
        /\ last' = [NoRequest EXCEPT
                        !.op = "search_blogs", !.status = 200,
                        !.listing = search_blogs(blogs, q, skip, limit)]
        /\ Unchanged

\* GET /blogs/my-blogs
GetMyBlogs ==
    \E cred \in tokens, skip \in 0..1, limit \in 1..2 :
        LET session == Session(cred)
            out == get_blogs_by_user(users, blogs, session.user.id, skip,
                                     limit)
        IN  /\ last' = IF session.exc # None
                       THEN Rejected("get_my_blogs", cred, session)
                       ELSE [Resolved("get_my_blogs", cred, session) EXCEPT
                                !.exc = out.exc,
                                !.status = IF out.exc = None THEN 200 ELSE 500,
                                !.detail = IF out.exc = None THEN ""
                                           ELSE "Failed to fetch user blogs",
                                !.listing = out.ret]
            /\ Unchanged

\* the part of the three mutating handlers that follows the service call
BlogMutation(op, cred, session, blog_id, out, ok) ==
    /\ blogs' = out.blogs
    /\ last' = [Resolved(op, cred, session) EXCEPT
                    !.exc = out.exc, !.err = out.detail,
                    !.status = BlogStatus(out.exc, ok),
                    !.detail = IF out.exc \in {None, "NotFoundError",
                                               "AuthorizationError"}
                               THEN out.detail
                               ELSE "Failed",
                    !.target = blog_id,
                    !.owner = blog_by_id(blogs, blog_id).creator_id,
                    !.touched = Touched(blogs, out.blogs),
                    !.changed = (out.blogs # blogs)]
    /\ UNCHANGED <<inflight, secret_key_type, users, tokens, now, next_acct, next_post>>

\* PUT /blogs/{blog_id}
UpdateBlog ==
    \E cred \in tokens, blog_id \in 1..MaxPosts, blog_data \in BlogUpdates :
        LET session == Session(cred)
        IN  IF session.exc # None
            THEN /\ last' = Rejected("update_blog", cred, session)
                 /\ Unchanged
            ELSE BlogMutation("update_blog", cred, session, blog_id,
                              update_blog(users, blogs, blog_id, blog_data,
                                          session.user.id), 200)

\* DELETE /blogs/{blog_id}
DeleteBlog ==
    \E cred \in tokens, blog_id \in 1..MaxPosts :
        LET session == Session(cred)
        IN  IF session.exc # None
            THEN /\ last' = Rejected("delete_blog", cred, session)
                 /\ Unchanged
            ELSE BlogMutation("delete_blog", cred, session, blog_id,
                              delete_blog(users, blogs, blog_id,
                                          session.user.id), 204)

\* POST /blogs/{blog_id}/publish
PublishBlog ==
    \E cred \in tokens, blog_id \in 1..MaxPosts :
        LET session == Session(cred)
        IN  IF session.exc # None
            THEN /\ last' = Rejected("publish_blog", cred, session)
                 /\ Unchanged
            ELSE BlogMutation("publish_blog", cred, session, blog_id,
                              publish_blog(users, blogs, blog_id,
                                           session.user.id), 200)

(***************************************************************************)
(* The environment: time passes, a client discards its token.              *)
(***************************************************************************)
Tick ==
    /\ now + TicksPerMinute <= timedelta(MaxMinutes)
    /\ now' = now + TicksPerMinute
    /\ last' = NoRequest
    /\ UNCHANGED <<inflight, secret_key_type, users, blogs, tokens, next_acct, next_post>>

DiscardToken ==
    \E tk \in tokens :
        /\ tokens' = tokens \ {tk}
        /\ last' = NoRequest
        /\ UNCHANGED <<inflight, secret_key_type, users, blogs, now, next_acct,
                       next_post>>

Init ==
    /\ secret_key_type \in {"str", "SecretStr"}
    /\ users = {}
    /\ blogs = {}
    /\ tokens = {}
    /\ now = 0
    /\ next_acct = 1
    /\ next_post = 1
    /\ last = NoRequest
    /\ inflight = {}

Next ==
    \/ CreateUser
    \/ GetMe
    \/ GetMeBlogs
    \/ GetUser
    \/ UpdateMe
    \/ DeleteMe
    \/ GetUsers
    \/ Login
    \/ Logout
    \/ GetCurrentUserInfo
    \/ CreateBlog
    \/ GetBlogs
    \/ SearchBlogs
    \/ GetMyBlogs
    \/ UpdateBlog
    \/ DeleteBlog
    \/ PublishBlog
    \/ Tick
    \/ DiscardToken

Spec == Init /\ [][Next]_vars

(***************************************************************************)
(* Accounts and sessions alone: registration, login, session resolution,   *)
(* profile update and account deletion, with the clock.                    *)
(***************************************************************************)
NextAuth ==
    \/ CreateUser
    \/ Login
    \/ GetCurrentUserInfo
    \/ UpdateMe
    \/ DeleteMe
    \/ Tick
    \/ DiscardToken

SpecAuth == Init /\ [][NextAuth]_vars

\* the same with logout
NextSession ==
    \/ CreateUser
    \/ Login
    \/ Logout
    \/ GetCurrentUserInfo
    \/ UpdateMe
    \/ DeleteMe
    \/ Tick
    \/ DiscardToken

SpecSession == Init /\ [][NextSession]_vars

\* the requests that answer with a user's data
NextProfile ==
    \/ CreateUser
    \/ Login
    \/ GetCurrentUserInfo
    \/ GetMe
    \/ GetMeBlogs
    \/ GetUser
    \/ UpdateMe
    \/ DeleteMe
    \/ GetUsers

SpecProfile == Init /\ [][NextProfile]_vars

(***************************************************************************)
(* Posts alone: registration, login, account deletion and the blog         *)
(* handlers.                                                               *)
(***************************************************************************)
NextBlog ==
    \/ CreateUser
    \/ Login
    \/ DeleteMe
    \/ CreateBlog
    \/ GetBlogs
    \/ SearchBlogs
    \/ UpdateBlog
    \/ DeleteBlog
    \/ PublishBlog
    \/ DiscardToken

SpecBlog == Init /\ [][NextBlog]_vars

\* the requests that write: accounts, profiles and posts
NextWrite ==
    \/ CreateUser
    \/ Login
    \/ UpdateMe
    \/ DeleteMe
    \/ CreateBlog
    \/ UpdateBlog
    \/ DeleteBlog
    \/ PublishBlog

SpecWrite == Init /\ [][NextWrite]_vars

(***************************************************************************)
(* Passwords alone: registration and login with every password the schemas *)
(* accept (UserCreate.password has a minimum length and no maximum,        *)
(* LoginRequest.password has neither), and verify_password called          *)
(* directly.  password is the password of the request.                     *)
(***************************************************************************)
AnyPasswords == Passwords \cup DOMAIN LongPasswords

\* POST /users/create
CreateUserAnyPassword ==
    \E email \in Emails, password \in AnyPasswords, name \in Names :
        LET out == create_user(users, blogs,
                               [name |-> name, email |-> email,
                                password |-> password], next_acct)
        IN  /\ out.exc = None => next_acct <= MaxAccounts
            /\ users' = out.users
            /\ next_acct' = IF out.exc = None THEN next_acct + 1 ELSE next_acct
            /\ last' = [NoRequest EXCEPT
                            !.op = "create_user", !.email = email,
                            !.password = password,
                            !.exc = out.exc, !.err = out.detail,
                            !.status = IF out.exc = None THEN 201 ELSE 500,
                            !.detail = IF out.exc = None THEN ""
                                       ELSE "Failed to create user",
                            !.profile = UserResponse(out.ret),
                            !.changed = (out.users # users)]
            /\ UNCHANGED <<inflight, secret_key_type, blogs, tokens, now,
                           next_post>>

\* POST /auth/login
LoginAnyPassword ==
    \E email \in Emails, password \in AnyPasswords :
        LET r == login_user(users, email, password, now, secret_key_type)
        IN  /\ tokens' = IF r.exc = None THEN {r.token} ELSE tokens
            /\ last' = [NoRequest EXCEPT
                            !.op = "login", !.email = email,
                            !.password = password,
                            !.case = login_case(users, email, password),
                            !.exc = r.exc, !.err = r.detail,
                            !.status = IF r.exc = None THEN 200 ELSE 401,
                            !.detail = IF r.exc = None THEN ""
                                       ELSE "Invalid email or password",
                            !.token = IF r.exc = None THEN r.token ELSE NoCred,
                            !.profile = r.user]
            /\ UNCHANGED <<inflight, secret_key_type, users, blogs, now,
                           next_acct, next_post>>

\* a call of security_manager.verify_password on a stored hash or on a
\* string that is no hash; detail is the value returned
VerifyPassword ==
    \E password \in AnyPasswords,
       hash \in {u.password_hash : u \in users} \cup {MalformedHash} :
        /\ last' = [NoRequest EXCEPT
                        !.op = "verify_password", !.password = password,
                        !.case = hash.scheme,
                        !.detail = IF verify_password(password, hash)
                                   THEN "True" ELSE "False"]
        /\ Unchanged

NextPassword ==
    \/ CreateUserAnyPassword
    \/ LoginAnyPassword
    \/ VerifyPassword
    \/ DeleteMe

SpecPassword == Init /\ [][NextPassword]_vars

(***************************************************************************)
(* Process start.  Importing app.core.config runs `settings = Settings()`  *)
(* on what the environment holds; when it raises, the import of app.main   *)
(* fails and no request is served.  settings is what the process loaded.   *)
(***************************************************************************)
SecretKeyLengths == 0..(MinSecretKeyLength + SecretSlack)

ExpireMinutes ==
    ((MinExpireMinutes - ExpirySlack)..(MinExpireMinutes + ExpirySlack))
    \cup ((MaxExpireMinutes - ExpirySlack)..(MaxExpireMinutes + ExpirySlack))

\* the process starts: settings = Settings()
LoadSettings ==
    \E secret_key_length \in SecretKeyLengths,
       expire_minutes \in ExpireMinutes :
        /\ last.op = ""
        /\ last' = [NoRequest EXCEPT
                        !.op = "Settings",
                        !.settings = Settings(secret_key_length,
                                              expire_minutes),
                        !.exc = IF Settings(secret_key_length,
                                            expire_minutes).loaded
                                THEN None ELSE "ValidationError"]
        /\ Unchanged

\* GET /health, served once the application is up
HealthCheck ==
    /\ last.settings.loaded
    /\ last' = [last EXCEPT !.op = "health_check", !.status = 200]
    /\ Unchanged

NextConfig ==
    \/ LoadSettings
    \/ HealthCheck

SpecConfig == Init /\ [][NextConfig]_vars

(***************************************************************************)
(* Storage failures.  UserService.get_user_by_email catches every          *)
(* exception of its query and returns None, so a lookup whose query raises *)
(* (the storage is unreachable, the table is locked) gives its caller what *)
(* a lookup in a table without rows gives.                                 *)
(***************************************************************************)
\* the rows the query of a lookup yields while the storage fails
QueryFailed == {}

\* POST /auth/login while the storage fails
LoginStorageFailure ==
    \E email \in Emails, password \in Passwords :
        LET r == login_user(QueryFailed, email, password, now,
                            secret_key_type)
        IN  /\ tokens' = IF r.exc = None THEN {r.token} ELSE tokens
            /\ last' = [NoRequest EXCEPT
                            !.op = "login", !.email = email,
                            !.case = "storage_failure",
                            !.exc = r.exc, !.err = r.detail,
                            !.status = IF r.exc = None THEN 200 ELSE 401,
                            !.detail = IF r.exc = None THEN ""
                                       ELSE "Invalid email or password",
                            !.token = IF r.exc = None THEN r.token ELSE NoCred,
                            !.profile = r.user]
            /\ UNCHANGED <<inflight, secret_key_type, users, blogs, now,
                           next_acct, next_post>>

\* GET /auth/me while the storage fails
GetCurrentUserInfoStorageFailure ==
    \E cred \in Credentials :
        LET session == get_current_user(QueryFailed, cred, now,
                                        secret_key_type)
        IN  /\ last' = IF session.exc # None
                       THEN [Rejected("get_current_user_info", cred, session)
                             EXCEPT !.case = "storage_failure"]
                       ELSE [Resolved("get_current_user_info", cred, session)
                             EXCEPT !.status = 200,
                                    !.case = "storage_failure",
                                    !.profile = user_info(session.user)]
            /\ Unchanged

NextStorage ==
    \/ CreateUser
    \/ Login
    \/ GetCurrentUserInfo
    \/ LoginStorageFailure
    \/ GetCurrentUserInfoStorageFailure
    \/ DeleteMe
    \/ Tick
    \/ DiscardToken

SpecStorage == Init /\ [][NextStorage]_vars

(***************************************************************************)
(* Updates of a post with every body BlogUpdate accepts: each subset of    *)
(* the four fields, and a field sent as null.  blog_data is the body of    *)
(* the request.                                                            *)
(***************************************************************************)
AnyContents == Contents \cup {<<"c">>}
Summaries == {None, "s1"}

AnyBlogUpdates ==
    {[set |-> fields,
      title |-> IF "title" \in fields THEN t ELSE <<>>,
      content |-> IF "content" \in fields THEN c ELSE <<>>,
      summary |-> IF "summary" \in fields THEN s ELSE None,
      is_published |-> IF "is_published" \in fields THEN p ELSE FALSE,
      null |-> {}] :
        fields \in SUBSET {"title", "content", "summary", "is_published"},
        t \in Titles, c \in AnyContents, s \in Summaries, p \in BOOLEAN}
    \cup {[NoBlogUpdate EXCEPT !.set = {f}, !.null = {f}] :
            f \in {"title", "is_published"}}

\* PUT /blogs/{blog_id}
UpdateBlogAnyFields ==
    \E cred \in tokens, blog_id \in 1..MaxPosts,
       blog_data \in AnyBlogUpdates :
        LET session == Session(cred)
            out == update_blog(users, blogs, blog_id, blog_data,
                               session.user.id)
        IN  IF session.exc # None
            THEN /\ last' = Rejected("update_blog", cred, session)
                 /\ Unchanged
            ELSE /\ blogs' = out.blogs
                 /\ last' = [Resolved("update_blog", cred, session) EXCEPT
                                !.exc = out.exc, !.err = out.detail,
                                !.status = BlogStatus(out.exc, 200),
                                !.detail = IF out.exc \in
                                              {None, "NotFoundError",
                                               "AuthorizationError"}
                                           THEN out.detail
                                           ELSE "Failed to update blog",
                                !.target = blog_id,
                                !.owner = blog_by_id(blogs, blog_id).creator_id,
                                !.touched = Touched(blogs, out.blogs),
                                !.blog_data = blog_data,
                                !.changed = (out.blogs # blogs)]
                 /\ UNCHANGED <<inflight, secret_key_type, users, tokens, now,
                                next_acct, next_post>>

NextUpdate ==
    \/ CreateUser
    \/ Login
    \/ CreateBlog
    \/ UpdateBlogAnyFields
    \/ PublishBlog

SpecUpdate == Init /\ [][NextUpdate]_vars

(***************************************************************************)
(* The token service alone (SecurityManager.create_access_token and        *)
(* verify_token called directly), on a clock of half seconds.              *)
(***************************************************************************)
\* the data a token is created from: with a subject, or without one
TokenData ==
    {[sub |-> "e1", user_id |-> 1, acct |-> 0],
     [sub |-> None, user_id |-> 1, acct |-> 0]}

\* the expires_delta a token is created with: None, zero, the configured one
Deltas == {NoDelta, 0, timedelta(ACCESS_TOKEN_EXPIRE_MINUTES)}

\* the last instant of the token specification
TokenEnd == timedelta(ACCESS_TOKEN_EXPIRE_MINUTES) + IssueBy + TokenSlack

\* a call of security_manager.create_access_token
IssueToken ==
    \E data \in TokenData, expires_delta \in Deltas :
        LET tk == create_access_token(data, expires_delta, now,
                                      secret_key_type)
        IN  /\ now <= IssueBy
            /\ tokens' = IF tk = TokenValueError THEN tokens ELSE {tk}
            /\ last' = [NoRequest EXCEPT
                            !.op = "create_access_token", !.token = tk,
                            !.exc = IF tk = TokenValueError THEN "ValueError"
                                    ELSE None]
            /\ UNCHANGED <<inflight, secret_key_type, users, blogs, now, next_acct,
                           next_post>>

\* the token with its signature replaced
Tampered(tk) == [tk EXCEPT !.sig = "other"]

\* a call of security_manager.verify_token; detail is the value returned
VerifyToken ==
    \E cred \in tokens \cup {Tampered(tk) : tk \in tokens} \cup {Malformed} :
        /\ last' = [NoRequest EXCEPT
                        !.op = "verify_token", !.cred = cred,
                        !.detail = verify_token(cred, now, secret_key_type)]
        /\ Unchanged

TokenTick ==
    \E d \in {1, TicksPerSecond, TicksPerMinute} :
        /\ now + d <= TokenEnd
        /\ now' = now + d
        /\ last' = NoRequest
        /\ UNCHANGED <<inflight, secret_key_type, users, blogs, tokens, next_acct,
                       next_post>>

NextToken ==
    \/ IssueToken
    \/ VerifyToken
    \/ GetCurrentUserInfo
    \/ TokenTick

SpecToken == Init /\ [][NextToken]_vars

(***************************************************************************)
(* Concurrent service calls.  A call reads (the existence check or the     *)
(* query for the row), other calls may commit, then the call commits.      *)
(* What the commit does is decided by the tables as they are then: the     *)
(* unique index on users.email (models/user.py) raises IntegrityError; the *)
(* foreign key of blogs.creator_id is enforced or not by the database of   *)
(* DATABASE_URL (SQLite, the default, does not enforce it).                *)
(***************************************************************************)
NoBlogData ==
    [title |-> <<>>, content |-> <<>>, summary |-> None,
     is_published |-> FALSE]

\* a call that has read: the operation, the session it runs in, the request
\* and the row it has loaded (seen)
Call(slot, op, cred, session, name, password, user_data, blog_data) ==
    [slot |-> slot, op |-> op, cred |-> cred, caller |-> session.user.id,
     caller_acct |-> session.user.acct, seen |-> session.user,
     name |-> name, password |-> password, set |-> user_data.set,
     email |-> user_data.email, is_active |-> user_data.is_active,
     blog_data |-> blog_data]

NoSession == [exc |-> None, detail |-> "", user |-> NoUser]

\* the server processes: the handlers are async functions that never
\* await, so a process runs one service call at a time
Workers == {"w1", "w2"}

\* the process that takes the next call, when one is idle (they are alike)
FreeSlots ==
    LET free == Workers \ {c.slot : c \in inflight}
    IN  IF free = {} THEN {} ELSE {CHOOSE w \in free : TRUE}

\* the requests of the calls that interleave: a change of email, a draft
EmailUpdates == {u \in UserUpdates : u.set = {"email"}}
DraftData ==
    [title |-> <<"a">>, content |-> <<"b">>, summary |-> None,
     is_published |-> FALSE]

\* the INSERT of create_user on a table without the unique index
create_user_commit_no_index(us, bs, user_data, acct) ==
    LET db_user == [id |-> NewId(us), acct |-> acct,
                    name |-> user_data.name, email |-> user_data.email,
                    password_hash |-> hash_password(user_data.password),
                    is_active |-> TRUE, is_verified |-> TRUE]
    IN  Outcome(None, "", db_user, us \cup {db_user}, bs)

\* UserService.create_user from db.add on, for a call whose existence check
\* found no user: the INSERT violates the unique index when the email has
\* been stored since (IntegrityError -> rollback -> ConflictError)
create_user_commit(us, bs, user_data, acct) ==
    IF \E u \in us : u.email = user_data.email
    THEN Outcome("ConflictError",
                 "User creation failed due to database constraints",
                 NoUser, us, bs)
    ELSE create_user(us, bs, user_data, acct)

\* update_user_commit that writes every field the request sets, changed or
\* not
update_user_commit_every_field(us, bs, seen, user_data) ==
    LET row == user_by_id(us, seen.id)
        updated == apply_user_update(row, user_data)
    IN  IF row = NoUser
        THEN Outcome("DatabaseError", "Failed to update user", NoUser, us, bs)
        ELSE IF \E o \in us \ {row} : o.email = updated.email
        THEN Outcome("ConflictError",
                     "User update failed due to database constraints",
                     NoUser, us, bs)
        ELSE Outcome(None, "", updated, (us \ {row}) \cup {updated}, bs)

\* UserService.update_user from setattr on, for a call that loaded the row
\* seen: the UPDATE sets the columns whose value differs from the loaded
\* one, in the row with that id; no such row is StaleDataError (or the
\* refresh fails), which leaves as DatabaseError
update_user_commit(us, bs, seen, user_data) ==
    LET row == user_by_id(us, seen.id)
        dirty == {f \in user_data.set :
                     \/ f = "email" /\ user_data.email # seen.email
                     \/ f = "is_active" /\ user_data.is_active # seen.is_active}
        updated == apply_user_update(row, [user_data EXCEPT !.set = dirty])
    IN  IF row = NoUser
        THEN Outcome("DatabaseError", "Failed to update user", NoUser, us, bs)
        ELSE IF \E o \in us \ {row} : o.email = updated.email
        THEN Outcome("ConflictError",
                     "User update failed due to database constraints",
                     NoUser, us, bs)
        ELSE Outcome(None, "", updated, (us \ {row}) \cup {updated}, bs)

\* BlogService.create_blog from db.add on, for a call whose creator check
\* passed: with the foreign key enforced, a creator deleted since is
\* IntegrityError -> ConflictError; without, the row is inserted
create_blog_commit(us, bs, blog_data, creator_id, serial, foreign_keys) ==
    IF user_by_id(us, creator_id) = NoUser /\ foreign_keys
    THEN Outcome("ConflictError",
                 "Blog creation failed due to database constraints",
                 NoBlog, us, bs)
    ELSE LET db_blog == [id |-> NewId(bs), serial |-> serial,
                         title |-> blog_data.title,
                         content |-> blog_data.content,
                         summary |-> blog_data.summary,
                         is_published |-> blog_data.is_published,
                         creator_id |-> creator_id]
         IN  Outcome(None, "", db_blog, us, bs \cup {db_blog})

\* POST /users/create up to the existence check, which finds no user
BeginCreateUser ==
    \E slot \in FreeSlots, email \in Emails, password \in RegPasswords,
       name \in Names :
        /\ get_user_by_email(users, email) = NoUser
        /\ inflight' = inflight \cup
              {Call(slot, "create_user", NoCred, NoSession, name, password,
                    [set |-> {}, email |-> email, is_active |-> FALSE],
                    NoBlogData)}
        /\ last' = NoRequest
        /\ UNCHANGED <<secret_key_type, users, blogs, tokens, now,
                       next_acct, next_post>>

\* POST /users/create from db.add to the response
CommitCreateUser ==
    \E c \in inflight :
        LET out == create_user_commit(users, blogs,
                                      [name |-> c.name, email |-> c.email,
                                       password |-> c.password], next_acct)
        IN  /\ c.op = "create_user"
            /\ out.exc = None => next_acct <= MaxAccounts
            /\ inflight' = inflight \ {c}
            /\ users' = out.users
            /\ next_acct' = IF out.exc = None THEN next_acct + 1 ELSE next_acct
            /\ last' = [NoRequest EXCEPT
                            !.op = "create_user", !.email = c.email,
                            !.case = "passed_check",
                            !.exc = out.exc, !.err = out.detail,
                            !.status = IF out.exc = None THEN 201
                                       ELSE IF out.exc = "ConflictError" THEN 409
                                       ELSE 500,
                            !.detail = IF out.exc = None THEN ""
                                       ELSE IF out.exc = "ConflictError"
                                       THEN out.detail
                                       ELSE "Failed to create user",
                            !.profile = UserResponse(out.ret),
                            !.changed = (out.users # users)]
            /\ UNCHANGED <<secret_key_type, blogs, tokens, now, next_post>>

\* PUT /users/me up to the query for the user's row
BeginUpdateUser ==
    \E slot \in FreeSlots, cred \in tokens, user_data \in EmailUpdates :
        LET session == Session(cred)
        IN  /\ session.exc = None
            /\ inflight' = inflight \cup
                  {Call(slot, "update_user", cred, session, "", "",
                        user_data, NoBlogData)}
            /\ last' = NoRequest
            /\ UNCHANGED <<secret_key_type, users, blogs, tokens, now,
                           next_acct, next_post>>

\* PUT /users/me from setattr to the response
CommitUpdateUser ==
    \E c \in inflight :
        LET out == update_user_commit(users, blogs, c.seen,
                                      [set |-> c.set, email |-> c.email,
                                       is_active |-> c.is_active])
        IN  /\ c.op = "update_user"
            /\ inflight' = inflight \ {c}
            /\ users' = out.users
            /\ last' = [NoRequest EXCEPT
                            !.op = "update_me", !.cred = c.cred,
                            !.case = "passed_check",
                            !.caller = c.caller,
                            !.caller_acct = c.caller_acct,
                            !.exc = out.exc, !.err = out.detail,
                            !.status = IF out.exc = None THEN 200
                                       ELSE IF out.exc = "ConflictError"
                                       THEN 409 ELSE 500,
                            !.detail = IF out.exc = None THEN ""
                                       ELSE IF out.exc = "ConflictError"
                                       THEN out.detail
                                       ELSE "Failed to update user",
                            !.profile = UserResponse(out.ret),
                            !.changed = (out.users # users)]
            /\ UNCHANGED <<secret_key_type, blogs, tokens, now, next_acct,
                           next_post>>

\* POST /blogs/ up to the check that the creator exists, which passes
BeginCreateBlog ==
    \E slot \in FreeSlots, cred \in tokens :
        LET session == Session(cred)
        IN  /\ session.exc = None
            /\ user_by_id(users, session.user.id) # NoUser
            /\ inflight' = inflight \cup
                  {Call(slot, "create_blog", cred, session, "", "",
                        [set |-> {}, email |-> "", is_active |-> FALSE],
                        DraftData)}
            /\ last' = NoRequest
            /\ UNCHANGED <<secret_key_type, users, blogs, tokens, now,
                           next_acct, next_post>>

\* POST /blogs/ from db.add to the response
CommitCreateBlog ==
    \E c \in inflight, foreign_keys \in BOOLEAN :
        LET out == create_blog_commit(users, blogs, c.blog_data, c.caller,
                                      next_post, foreign_keys)
        IN  /\ c.op = "create_blog"
            /\ out.exc = None => next_post <= MaxPosts
            /\ inflight' = inflight \ {c}
            /\ blogs' = out.blogs
            /\ next_post' = IF out.exc = None THEN next_post + 1
                            ELSE next_post
            /\ last' = [NoRequest EXCEPT
                            !.op = "create_blog", !.cred = c.cred,
                            !.case = "passed_check",
                            !.caller = c.caller,
                            !.caller_acct = c.caller_acct,
                            !.exc = out.exc, !.err = out.detail,
                            !.status = IF out.exc = None THEN 201 ELSE 500,
                            !.detail = IF out.exc = None THEN ""
                                       ELSE "Failed to create blog",
                            !.target = out.ret.id,
                            !.owner = out.ret.creator_id,
                            !.changed = (out.blogs # blogs)]
            /\ UNCHANGED <<secret_key_type, users, tokens, now, next_acct>>

NextRace ==
    \/ CreateUser
    \/ Login
    \/ DeleteMe
    \/ BeginCreateUser
    \/ CommitCreateUser
    \/ BeginUpdateUser
    \/ CommitUpdateUser
    \/ BeginCreateBlog
    \/ CommitCreateBlog

SpecRace == Init /\ [][NextRace]_vars

\* the calls on the users table alone
NextUserRace ==
    \/ CreateUser
    \/ Login
    \/ DeleteMe
    \/ BeginCreateUser
    \/ CommitCreateUser
    \/ BeginUpdateUser
    \/ CommitUpdateUser

SpecUserRace == Init /\ [][NextUserRace]_vars

\* the requests that ask for an active account
ActivatingUpdates ==
    {u \in UserUpdates : "is_active" \in u.set /\ u.is_active}

\* PUT /users/me up to the query for the row, asking for an active account
BeginActivateUser ==
    \E slot \in FreeSlots, cred \in tokens, user_data \in ActivatingUpdates :
        LET session == Session(cred)
        IN  /\ session.exc = None
            /\ inflight' = inflight \cup
                  {Call(slot, "update_user", cred, session, "", "",
                        user_data, NoBlogData)}
            /\ last' = NoRequest
            /\ UNCHANGED <<secret_key_type, users, blogs, tokens, now,
                           next_acct, next_post>>

\* profile updates, sequential and interleaved, with logins
NextDeactivate ==
    \/ CreateUser
    \/ Login
    \/ UpdateMe
    \/ DeleteMe
    \/ BeginActivateUser
    \/ CommitUpdateUser

SpecDeactivate == Init /\ [][NextDeactivate]_vars

(***************************************************************************)
(* A request whose session was resolved (Depends(get_current_user_...))    *)
(* before another process committed, and whose handler runs after: the     *)
(* handler passes current_user.id of the user it was given to the service. *)
(***************************************************************************)
\* the session dependency of a request, resolved
ResolveSession ==
    \E slot \in FreeSlots, cred \in tokens :
        LET session == Session(cred)
        IN  /\ session.exc = None
            /\ inflight' = inflight \cup
                  {Call(slot, "resolved", cred, session, "", "",
                        [set |-> {}, email |-> "", is_active |-> FALSE],
                        NoBlogData)}
            /\ last' = NoRequest
            /\ UNCHANGED <<secret_key_type, users, blogs, tokens, now,
                           next_acct, next_post>>

\* the session a resolved request runs its handler with
Given(c) == [exc |-> None, detail |-> "", user |-> c.seen]

\* PUT /users/me, the handler.  The query of update_user finds the row by
\* id and yields the object the session loaded when it resolved the token,
\* with the values it had then
RunUpdateMe ==
    \E c \in inflight, user_data \in EmailUpdates :
        LET out == update_user_commit(users, blogs, c.seen, user_data)
        IN  /\ c.op = "resolved"
            /\ inflight' = inflight \ {c}
            /\ users' = out.users
            /\ last' = [Resolved("update_me", c.cred, Given(c)) EXCEPT
                            !.exc = out.exc, !.err = out.detail,
                            !.status = IF out.exc = None THEN 200
                                       ELSE IF out.exc = "ConflictError"
                                       THEN 409 ELSE 500,
                            !.detail = IF out.exc = None THEN ""
                                       ELSE IF out.exc = "ConflictError"
                                       THEN out.detail
                                       ELSE "Failed to update user",
                            !.profile = UserResponse(out.ret),
                            !.changed = (out.users # users)]
            /\ UNCHANGED <<secret_key_type, blogs, tokens, now, next_acct,
                           next_post>>

\* DELETE /users/me, the handler
RunDeleteMe ==
    \E c \in inflight :
        LET out == delete_user(users, blogs, c.caller)
        IN  /\ c.op = "resolved"
            /\ inflight' = inflight \ {c}
            /\ users' = out.users
            /\ blogs' = out.blogs
            /\ last' = [Resolved("delete_me", c.cred, Given(c)) EXCEPT
                            !.exc = out.exc, !.err = out.detail,
                            !.status = IF out.exc = None THEN 204 ELSE 500,
                            !.detail = IF out.exc = None THEN ""
                                       ELSE "Failed to delete user",
                            !.touched = Touched(blogs, out.blogs),
                            !.changed = (out.users # users
                                         \/ out.blogs # blogs)]
            /\ UNCHANGED <<secret_key_type, tokens, now, next_acct,
                           next_post>>

\* POST /blogs/, the handler
RunCreateBlog ==
    \E c \in inflight :
        LET out == create_blog(users, blogs, DraftData, c.caller, next_post)
        IN  /\ c.op = "resolved"
            /\ out.exc = None => next_post <= MaxPosts
            /\ inflight' = inflight \ {c}
            /\ blogs' = out.blogs
            /\ next_post' = IF out.exc = None THEN next_post + 1
                            ELSE next_post
            /\ last' = [Resolved("create_blog", c.cred, Given(c)) EXCEPT
                            !.exc = out.exc, !.err = out.detail,
                            !.status = IF out.exc = None THEN 201 ELSE 500,
                            !.detail = IF out.exc = None THEN ""
                                       ELSE "Failed to create blog",
                            !.target = out.ret.id,
                            !.owner = out.ret.creator_id,
                            !.changed = (out.blogs # blogs)]
            /\ UNCHANGED <<secret_key_type, users, tokens, now, next_acct>>

\* GET /blogs/my-blogs, the handler
RunGetMyBlogs ==
    \E c \in inflight, skip \in 0..1, limit \in 1..2 :
        LET out == get_blogs_by_user(users, blogs, c.caller, skip, limit)
        IN  /\ c.op = "resolved"
            /\ inflight' = inflight \ {c}
            /\ last' = [Resolved("get_my_blogs", c.cred, Given(c)) EXCEPT
                            !.exc = out.exc, !.err = out.detail,
                            !.status = IF out.exc = None THEN 200 ELSE 500,
                            !.detail = IF out.exc = None THEN ""
                                       ELSE "Failed to fetch user blogs",
                            !.listing = out.ret]
            /\ UNCHANGED <<secret_key_type, users, blogs, tokens, now,
                           next_acct, next_post>>

NextStale ==
    \/ CreateUser
    \/ Login
    \/ DeleteMe
    \/ ResolveSession
    \/ RunUpdateMe
    \/ RunDeleteMe
    \/ RunCreateBlog
    \/ RunGetMyBlogs
    \/ UpdateBlog
    \/ DeleteBlog
    \/ PublishBlog

SpecStale == Init /\ [][NextStale]_vars

(***************************************************************************)
(* Properties.                                                             *)
(***************************************************************************)
BlogMutations == {"update_blog", "delete_blog", "publish_blog"}

\* the latest request was a blog mutation by a resolved caller on a stored
\* post of another user
ByNonOwner ==
    /\ last.op \in BlogMutations
    /\ last.caller # 0
    /\ last.owner # 0
    /\ last.owner # last.caller

\* C1: update_blog, delete_blog and publish_blog of a stored post by a
\* resolved caller who is not its owner end in AuthorizationError (403
\* forbidden), never in NotFoundError or success, and change nothing; every
\* post that a request changes or removes is owned by the request's caller.
C1_NonOwnerForbidden ==
    /\ ByNonOwner => /\ last.exc = "AuthorizationError"
                     /\ last.status = 403
                     /\ ~last.changed
    /\ \A o \in last.touched : last.caller # 0 /\ o = last.caller

\* a caller was refused the deletion of another user's post
C1_Witness ==
    /\ ByNonOwner
    /\ last.op = "delete_blog"
    /\ last.status = 403

\* the posts in the body of the latest response
Listed == {last.listing.blogs[i] : i \in 1..Len(last.listing.blogs)}

Refused(message) ==
    /\ last.status = 401
    /\ last.exc = "AuthenticationError"
    /\ last.detail = message
    /\ last.caller = 0

\* C4: get_current_user checks in this order: a token that verify_token
\* yields no subject for is refused with "Invalid or expired token"; else a
\* subject that is no stored user's email with "User not found"; else a
\* stored user with is_active false with "User account is deactivated";
\* else the stored user whose email is the subject is returned.
C4_ChecksInOrder ==
    last.op = "get_current_user_info" =>
        LET email == verify_token(last.cred, now, secret_key_type)
            found == {u \in users : u.email = email}
        IN  IF email = None THEN Refused("Invalid or expired token")
            ELSE IF found = {} THEN Refused("User not found")
            ELSE IF \E u \in found : ~u.is_active
                 THEN Refused("User account is deactivated")
            ELSE /\ last.status = 200
                 /\ last.exc = None
                 /\ \E u \in found : /\ last.caller = u.id
                                     /\ last.caller_acct = u.acct
                                     /\ last.profile.email = email

\* a valid token of a stored but deactivated user was refused
C4_Witness ==
    /\ last.op = "get_current_user_info"
    /\ verify_token(last.cred, now, secret_key_type) # None
    /\ Refused("User account is deactivated")

\* C5: a login with the email and password of a stored, active user
\* succeeds with a bearer token, and that token, before its expiry, resolves
\* to that user.
C5_LoginThenResolve ==
    (last.op = "login" /\ last.case = "valid") =>
        /\ last.status = 200
        /\ last.token.kind = "jwt"
        /\ LET session == get_current_user(users, last.token, now,
                                           secret_key_type)
           IN  /\ session.exc = None
               /\ session.user.email = last.email

\* the three cases authenticate_user yields None in
FailedLoginCases == {"unknown_email", "wrong_password", "inactive"}

\* C6: a login with an unknown email, with a wrong password or for an
\* inactive account gets one and the same answer: AuthenticationError
\* "Invalid email or password" (401), with no token and no user summary.
C6_LoginFailsIdentically ==
    (last.op = "login" /\ last.case \in FailedLoginCases) =>
        /\ last.status = 401
        /\ last.exc = "AuthenticationError"
        /\ last.err = "Invalid email or password"
        /\ last.detail = "Invalid email or password"
        /\ last.token = NoCred
        /\ last.profile = NoSummary

\* the right password of a deactivated account was refused
C6_Witness ==
    /\ last.op = "login"
    /\ last.case = "inactive"
    /\ last.status = 401
    /\ \E u \in users : u.email = last.email /\ ~u.is_active

\* the latest call verified a token that create_access_token made and
\* nobody altered
VerifiedGenuine ==
    /\ last.op = "verify_token"
    /\ last.cred.kind = "jwt"
    /\ last.cred.sig = get_secret_value(secret_key_type)

BadToken(cred, t) ==
    \/ cred.kind # "jwt"
    \/ cred.sig # "key"
    \/ cred.exp < ToSeconds(t)
    \/ cred.sub = None

\* C9: verify_token never raises: it returns a subject or None, and None
\* for a malformed string, a wrong signature, an expired token and a token
\* without a subject; get_current_user answers all of these with the same
\* AuthenticationError "Invalid or expired token".
C9_InvalidIsUniform ==
    /\ last.op = "verify_token"
          => /\ last.detail \in Emails \cup {None}
             /\ BadToken(last.cred, now) => last.detail = None
    /\ (last.op = "get_current_user_info" /\ BadToken(last.cred, now))
          => Refused("Invalid or expired token")

\* an expired token that is otherwise sound was answered like a forged one
C9_Witness ==
    /\ last.op = "get_current_user_info"
    /\ last.cred.kind = "jwt"
    /\ last.cred.sig = "key"
    /\ last.cred.sub # None
    /\ last.cred.exp < ToSeconds(now)
    /\ Refused("Invalid or expired token")

\* the stored post b as it is after the step, if it is still stored (a
\* post is told from a later one with the same id by its serial)
After(b) == {b2 \in blogs' : b2.serial = b.serial}

C12_PublishIdempotent ==
    [][\A b \in blogs :
          (/\ b.is_published
           /\ last'.op = "publish_blog"
           /\ last'.target = b.id
           /\ last'.caller = b.creator_id)
          => /\ last'.status = 200
             /\ last'.exc = None
             /\ ~last'.changed
             /\ blogs' = blogs]_vars

\* the owner published a post that was published already
C12_Witness ==
    /\ last.op = "publish_blog"
    /\ last.status = 200
    /\ ~last.changed
    /\ \E b \in blogs : /\ b.id = last.target
                        /\ b.creator_id = last.caller
                        /\ b.is_published

\* C13: every stored post has one owner: create_blog stores the post with
\* creator_id the id of the authenticated caller, no two rows are one
\* post, and no step changes the creator_id of a post that stays stored.
C13_OwnerImmutable ==
    [][/\ \A b \in blogs : \A b2 \in After(b) : b2.creator_id = b.creator_id
       /\ \A b2 \in blogs' :
             (\A b \in blogs : b.serial # b2.serial)
                => /\ last'.op = "create_blog"
                   /\ last'.caller # 0
                   /\ b2.creator_id = last'.caller
       /\ \A b1, b2 \in blogs' : b1.serial = b2.serial => b1 = b2]_vars

\* the owner changed a post, which is still stored with its owner
C13_Witness ==
    /\ last.op = "update_blog"
    /\ last.status = 200
    /\ last.changed
    /\ \E b \in blogs : b.id = last.target /\ b.creator_id = last.caller

C15_EmailUnique ==
    /\ \A u1, u2 \in users : u1.email = u2.email => u1 = u2
    /\ (last.op = "create_user" /\ last.case = "passed_check")
          => \/ /\ last.exc = None
                /\ last.changed
                /\ \E u \in users : /\ u.email = last.email
                                    /\ u.id = last.profile.id
             \/ /\ last.exc = "ConflictError"
                /\ last.status = 409
                /\ ~last.changed
                /\ \E u \in users : u.email = last.email
    /\ (last.op = "update_me" /\ last.exc = "ConflictError")
          => ~last.changed

\* of two registrations that both passed the existence check, the second
\* to commit ended in ConflictError
C15_Witness ==
    /\ last.op = "create_user"
    /\ last.case = "passed_check"
    /\ last.exc = "ConflictError"
    /\ ~last.changed
    /\ \E u \in users : u.email = last.email

\* the handlers that pass the caller's id to a service call on that user
OnCaller == {"update_me", "delete_me", "create_blog", "get_my_blogs"}

\* C16: a registration with an email that a stored user holds ends in
\* ConflictError, is answered with 409 and not with an internal error,
\* and leaves the stored users as they were.
C16_DuplicateIsConflict ==
    [][(/\ last'.op = "create_user"
        /\ \E u \in users : u.email = last'.email)
          => /\ last'.exc = "ConflictError"
             /\ last'.status = 409
             /\ users' = users]_vars

\* C17: a login with the email and password of a stored, active user for
\* which the token cannot be created is answered with an internal error
\* (500), not with 401 and not with success.
C17_TokenFailureIsInternal ==
    (/\ last.op = "login"
     /\ last.case = "valid"
     /\ auth_create_access_token(get_user_by_email(users, last.email), now,
                                 secret_key_type).exc # None)
        => last.status = 500

Mutating ==
    {"create_blog", "update_blog", "delete_blog", "publish_blog",
     "update_me", "delete_me"}

\* C19: a request to a protected mutating endpoint whose token does not
\* resolve to a session is answered 401, and one whose caller does not own
\* the post it names is refused, with the stored users and posts exactly
\* as they were before the request.
C19_ChecksBeforeWrites ==
    [][last'.op \in Mutating =>
          /\ get_current_user(users, last'.cred, now, secret_key_type).exc
                # None
                => /\ last'.status = 401
                   /\ users' = users
                   /\ blogs' = blogs
          /\ (/\ last'.op \in BlogMutations
              /\ blog_by_id(blogs, last'.target) # NoBlog
              /\ blog_by_id(blogs, last'.target).creator_id # last'.caller)
                => /\ last'.exc = "AuthorizationError"
                   /\ users' = users
                   /\ blogs' = blogs]_vars

\* a request to change a stored post was refused by the session dependency
C19_Witness ==
    /\ last.op = "update_blog"
    /\ last.status = 401
    /\ last.cred # NoCred
    /\ blogs # {}

\* the operations that write
WriteOps == Mutating \cup {"create_user"}

Instants == 0..timedelta(MaxMinutes)

C21_LogoutIsAdvisory ==
    [][last'.op = "logout" =>
        /\ users' = users
        /\ blogs' = blogs
        /\ \A cred \in Credentials, t \in Instants :
              get_current_user(users', cred, t, secret_key_type')
                = get_current_user(users, cred, t, secret_key_type)
        /\ last'.status = 200 =>
              \A t \in Instants :
                 (t >= now /\ ToSeconds(t) <= last'.cred.exp) =>
                    LET after == get_current_user(users', last'.cred, t,
                                                  secret_key_type')
                    IN  after.exc = None /\ after.user.id = last'.caller]_vars

\* a logout was answered, time has passed, and the token still resolves to
\* the user who logged out
C21_Witness ==
    /\ last.op = "logout"
    /\ last.status = 200
    /\ now > last.cred.iat
    /\ Session(last.cred).exc = None
    /\ Session(last.cred).user.id = last.caller

(***************************************************************************)
(* C22: no response carries a password hash or a password.  The user data  *)
(* of every response (the profile, the users listed) has no field beyond   *)
(* id, name, email, is_active and is_verified, no text of a response is a  *)
(* password, and the user summary of a login has exactly the fields id,    *)
(* name, email and is_active.                                              *)
(***************************************************************************)
PublicFields == {"id", "name", "email", "is_active", "is_verified"}
SummaryFields == {"id", "name", "email", "is_active"}
Secrets == Passwords \cup RegPasswords

Discloses(body) ==
    \/ ~(DOMAIN body \subseteq PublicFields)
    \/ body.name \in Secrets
    \/ body.email \in Secrets

C22_NoPasswordInResponse ==
    /\ ~Discloses(last.profile)
    /\ \A body \in last.users_listed : ~Discloses(body)
    /\ last.detail \notin Secrets
    /\ last.token.sub \notin Secrets
    /\ last.op = "login" => DOMAIN last.profile = SummaryFields

\* the list of users was answered with both users in it
C22_Witness ==
    /\ last.op = "get_users"
    /\ last.status = 200
    /\ Cardinality(last.users_listed) = MaxAccounts
    /\ \A u \in users : UserResponse(u) \in last.users_listed

(***************************************************************************)
(* C23: the hash of the password a user registered with verifies that      *)
(* password and no other.  Right after a registration with password p,     *)
(* verify_password(p, stored hash) is true and verify_password(q, stored   *)
(* hash) is false for every other q, so the user, who is active, is        *)
(* authenticated exactly with p; and verify_password answers False, not an *)
(* exception, on a string that is no hash.                                 *)
(***************************************************************************)
C23_VerifyExactlyRegistered ==
    /\ (last.op = "create_user" /\ last.status = 201) =>
          \A q \in AnyPasswords :
             LET user == get_user_by_email(users, last.email)
             IN  /\ verify_password(q, user.password_hash)
                        <=> (q = last.password)
                 /\ (authenticate_user(users, last.email, q) # NoUser)
                        <=> (q = last.password)
    /\ (last.op = "verify_password" /\ last.case # "bcrypt") =>
          last.detail = "False"

C26_ExpiryAboveOne ==
    last.settings.loaded =>
        /\ last.settings.SECRET_KEY >= 32
        /\ last.settings.ACCESS_TOKEN_EXPIRE_MINUTES > 1
        /\ last.settings.ACCESS_TOKEN_EXPIRE_MINUTES <= 1440

(***************************************************************************)
(* C26 amended: settings that loaded have a secret key of at least 32      *)
(* characters and an expiry of at least 1 and at most 1440 minutes; with   *)
(* any other value loading fails with a ValidationError and no request is  *)
(* served.                                                                 *)
(***************************************************************************)
C26_SettingsWithinLimits ==
    /\ last.settings.loaded =>
          /\ last.settings.SECRET_KEY >= 32
          /\ last.settings.ACCESS_TOKEN_EXPIRE_MINUTES >= 1
          /\ last.settings.ACCESS_TOKEN_EXPIRE_MINUTES <= 1440
    /\ ~last.settings.loaded =>
          /\ last.op \in {"", "Settings"}
          /\ last.op = "Settings" => last.exc = "ValidationError"

\* a request was served by a process whose settings sit on the limits
C26_Witness ==
    /\ last.op = "health_check"
    /\ last.status = 200
    /\ last.settings.SECRET_KEY = 32
    /\ last.settings.ACCESS_TOKEN_EXPIRE_MINUTES = 1

(***************************************************************************)
(* C27: an exception outside the taxonomy ends in an internal-error        *)
(* response.  A login of a registered user and the resolution of a token   *)
(* that verifies, made while the lookup of the user fails in the storage,  *)
(* are answered with 500: not with success and not as another kind of      *)
(* error.                                                                  *)
(***************************************************************************)
C27_StorageFailureIsInternal ==
    (/\ last.case = "storage_failure"
     /\ \/ last.op = "login" /\ get_user_by_email(users, last.email) # NoUser
        \/ /\ last.op = "get_current_user_info"
           /\ verify_token(last.cred, now, secret_key_type) # None) =>
        /\ last.status = 500
        /\ last.exc # "AuthenticationError"

(***************************************************************************)
(* C28: update_blog is a partial update.  An update by the owner that is   *)
(* answered with success leaves the post with the value of the request in  *)
(* every field the request sets and with its former value in every other   *)
(* field, with the same id and creator_id, and leaves every other post as  *)
(* it was; a request that sets no field changes nothing; and the same      *)
(* update made again changes nothing more.                                 *)
(***************************************************************************)
UpdatedAs(b, b2, data) ==
    /\ b2.id = b.id
    /\ b2.serial = b.serial
    /\ b2.creator_id = b.creator_id
    /\ b2.title = IF "title" \in data.set THEN data.title ELSE b.title
    /\ b2.content = IF "content" \in data.set THEN data.content ELSE b.content
    /\ b2.summary = IF "summary" \in data.set THEN data.summary ELSE b.summary
    /\ b2.is_published = IF "is_published" \in data.set
                         THEN data.is_published ELSE b.is_published

C28_PartialUpdate ==
    [][(last'.op = "update_blog" /\ last'.status = 200) =>
         \E b \in blogs, b2 \in blogs' :
            /\ b.id = last'.target
            /\ b.creator_id = last'.caller
            /\ UpdatedAs(b, b2, last'.blog_data)
            /\ blogs' \ {b2} = blogs \ {b}
            /\ last'.blog_data.set = {} => blogs' = blogs
            /\ update_blog(users', blogs', last'.target, last'.blog_data,
                           last'.caller).blogs = blogs']_vars

\* an update that set the title alone was answered for a published post
\* with a summary, which has the new title and is as it was otherwise
C28_Witness ==
    /\ last.op = "update_blog"
    /\ last.status = 200
    /\ last.changed
    /\ last.blog_data.set = {"title"}
    /\ \E b \in blogs :
          /\ b.id = last.target
          /\ b.title = last.blog_data.title
          /\ b.is_published
          /\ b.summary = "s1"

(***************************************************************************)
(* C29: one ownership rule.  For every stored user and every stored post,  *)
(* verify_user_permissions(user, owner) is true exactly when the user is   *)
(* the owner, and update_blog, delete_blog and publish_blog called by that *)
(* user for that post refuse with AuthorizationError exactly when it is    *)
(* false; the blog request just answered was decided the same way.         *)
(***************************************************************************)
Refuses(out) == out.exc = "AuthorizationError"

C29_OneOwnershipRule ==
    /\ \A u \in users, b \in blogs :
          LET allowed == verify_user_permissions(u, b.creator_id)
          IN  /\ allowed <=> (u.id = b.creator_id)
              /\ Refuses(update_blog(users, blogs, b.id, NoBlogUpdate, u.id))
                    <=> ~allowed
              /\ Refuses(delete_blog(users, blogs, b.id, u.id)) <=> ~allowed
              /\ Refuses(publish_blog(users, blogs, b.id, u.id)) <=> ~allowed
    /\ (last.op \in BlogMutations /\ last.caller # 0 /\ last.owner # 0) =>
          (Refuses(last) <=>
             ~verify_user_permissions(user_by_id(users, last.caller),
                                      last.owner))

\* a user who is not the owner of a stored post was refused its update
C29_Witness ==
    /\ last.op = "update_blog"
    /\ Refuses(last)
    /\ \E u \in users, b \in blogs :
          /\ u.id = last.caller
          /\ b.id = last.target
          /\ ~verify_user_permissions(u, b.creator_id)

(***************************************************************************)
(* C30: deactivation is absorbing.  No step sets is_active back to true    *)
(* for an account that is stored and not active: after the step the        *)
(* account is either not active or not stored.                             *)
(***************************************************************************)
C30_DeactivationAbsorbing ==
    [][\A u \in users : ~u.is_active =>
          \A u2 \in users' : u2.acct = u.acct => ~u2.is_active]_vars

\* an update that asks for an active account, read while the account was
\* active, was committed and answered with success after the account was
\* deactivated, and the account is still not active
C30_Witness ==
    /\ last.op = "update_me"
    /\ last.case = "passed_check"
    /\ last.status = 200
    /\ \E u \in users : u.acct = last.caller_acct /\ ~u.is_active

====
